---- MODULE Spec2Model ----
(***************************************************************************)
(* Model of the HAB project: the serial session with the Arduino           *)
(* (hab_proj/serial_comm.py, class ArduinoSerial) and the perception loop  *)
(* that drives it (hab_proj/camera.py, Camera.run_with_model).             *)
(*                                                                         *)
(* Every method of ArduinoSerial is an operator from a "world" record      *)
(* (the object's fields, the state of the serial handles it created and    *)
(* the I/O events of the running call) to the world after the call.  The   *)
(* actions apply these operators to the state variables, drawing the       *)
(* behaviour of the operating system and of the device from small sets.    *)
(*                                                                         *)
(* Port discovery (ArduinoSerial._find_arduino_port, and the diagnostic    *)
(* tool's find_arduino_port) is also run on its own over lists of          *)
(* candidates (SpecDiscovery), and the monitor mode of                     *)
(* the diagnostic tool (test_arduino.py, send_command and serial_reader)   *)
(* is modelled as two threads sharing one handle (SpecMonitor).            *)
(*                                                                         *)
(* The application's entry (main.py, main) is modelled up to the call of   *)
(* run_with_model (SpecMain); SpecLoopFair is the perception loop run by   *)
(* a thread that always takes its next step.                               *)
(***************************************************************************)
EXTENDS Integers, Sequences, FiniteSets, TLC

\* ------------------------------------------------------------------ bounds
\* handles one session may create (each serial.Serial(...) makes one)
MaxHandles == 2
\* lines the device delivers inside one 1-second polling window
MaxLines == 1
\* candidates returned by one comports() scan
MaxPorts == 2
\* time.time() when run_with_model starts (seconds since 1970 are far
\* beyond any interval)
StartTime == 100
\* ticks a run with a free frame supply lasts, and the frames it reads
MaxTime == 5
MaxFrames == 4
\* the interval of the runs with a free frame supply
ShortInterval == 2

\* commands the user types in one monitor session
MaxCommands == 2

\* --------------------------------------------------------------- constants
\* `for _ in range(3)` in _verify_arduino_connection
PingAttempts == 3
\* The clock counts ticks of 1/30 s, the frame period at 30 frames/s.
\* --interval default 0.5 s
DefaultInterval == 15
\* the FPS window, `>= 1.0`
FpsWindow == 30

\* self.port = None: no device path
None == <<>>

\* ------------------------------------------------------------- byte strings
\* bytes are sequences of one-character strings
PING == <<"p", "i", "n", "g", "\n">>

Digit(d) ==
  CASE d = 0 -> "0" [] d = 1 -> "1" [] d = 2 -> "2" [] d = 3 -> "3"
    [] d = 4 -> "4" [] d = 5 -> "5" [] d = 6 -> "6" [] d = 7 -> "7"
    [] d = 8 -> "8" [] d = 9 -> "9"

RECURSIVE Str(_)
\* str(command) for a non-negative integer command
Str(n) == IF n < 10 THEN <<Digit(n)>> ELSE Str(n \div 10) \o <<Digit(n % 10)>>

\* cmd_str = str(command) + '\n'; cmd_str.encode()
cmd_str(command) == Str(command) \o <<"\n">>

\* --------------------------------------------------------------- I/O events
Ev(kind, data) == [kind |-> kind, data |-> data]

\* number of events of a kind in a trace
RECURSIVE Count(_, _)
Count(tr, kind) ==
  IF tr = <<>> THEN 0
  ELSE (IF Head(tr).kind = kind THEN 1 ELSE 0) + Count(Tail(tr), kind)

\* position of the first event of a kind, 0 when there is none
FirstAt(tr, kind) ==
  IF \E i \in 1..Len(tr) : tr[i].kind = kind
  THEN CHOOSE i \in 1..Len(tr) :
         tr[i].kind = kind /\ \A j \in 1..(i - 1) : tr[j].kind # kind
  ELSE 0

\* the payloads written to the serial line, in order
RECURSIVE Written(_)
Written(tr) ==
  IF tr = <<>> THEN <<>>
  ELSE (IF Head(tr).kind = "write" THEN <<Head(tr).data>> ELSE <<>>)
       \o Written(Tail(tr))

\* ------------------------------------------------------------ the device
\* a line is a sequence of words; the ready token is "Arduino pronto"
READY == <<"Arduino", "pronto">>

Lines ==
  { <<"Arduino", "pronto">>,
    <<"OK", "Arduino", "pronto", "v1">>,
    <<"Arduino", "iniciando">> }

\* "Arduino pronto" in response
Contains(line, tok) ==
  \E i \in 0..(Len(line) - Len(tok)) : SubSeq(line, i + 1, i + Len(tok)) = tok

SeqsUpTo(S, n) == UNION { [1..k -> S] : k \in 0..n }

ReadyIn(ls) == \E i \in 1..Len(ls) : Contains(ls[i], READY)

\* What the device does during one verification: the lines the host reads
\* in each polling window, and the ping write (0 = none) that raises.
\* the device that sends nothing
Silent == [lines |-> [k \in 1..PingAttempts |-> <<>>], errAt |-> 0]

\* what one window can hold: up to MaxLines lines, none after a ready line
\* (verification stops reading there)
WindowLines ==
  { ls \in SeqsUpTo(Lines, MaxLines) :
      ls # <<>> /\ ~ReadyIn(SubSeq(ls, 1, Len(ls) - 1)) }

\* the device that sends the lines ls in window k and nothing else
OneWindow(k, ls) ==
  [lines |-> [j \in 1..PingAttempts |-> IF j = k THEN ls ELSE <<>>],
   errAt |-> 0]

\* the device that answers every ping with a line other than the ready
\* line, and from window k on (k > PingAttempts: never) with the ready line
Chatty(k) ==
  [lines |-> [j \in 1..PingAttempts |->
                IF j < k THEN << <<"Arduino", "iniciando">> >>
                ELSE IF j = k THEN <<READY>> ELSE <<>>],
   errAt |-> 0]

\* the behaviours a session meets when it connects: silence, lines (ready
\* or not) in one of the windows, a line in every window, or a failing
\* first ping
SessionDevices ==
  {Silent} \cup {[Silent EXCEPT !.errAt = 1]}
  \cup {OneWindow(k, ls) : k \in 1..PingAttempts, ls \in WindowLines}
  \cup {Chatty(k) : k \in 2..(PingAttempts + 1)}

\* ------------------------------------------------------- port discovery
\* A candidate is one entry of serial.tools.list_ports.comports():
\*   device       the device path, as a sequence of lexical tokens
\*   description  a sequence of words
\*   hwid         words plus the VID:PID field (vid = <<>> when absent)
Dev_ttyACM0 == <<"/dev/", "ttyACM", "0">>
Dev_ttyUSB0 == <<"/dev/", "ttyUSB", "0">>
Dev_COM3 == <<"COM", "3">>
Dev_ttyS0 == <<"/dev/", "ttyS", "0">>

Candidates ==
  { [device |-> Dev_ttyACM0, description |-> <<"Arduino", "Uno">>,
     hwid |-> [words |-> <<"USB">>, vid |-> <<"2", "3", "4", "1">>,
               pid |-> <<"0", "0", "4", "3">>]],
    [device |-> Dev_ttyUSB0, description |-> <<"USB", "Serial">>,
     hwid |-> [words |-> <<"USB">>, vid |-> <<"1", "a", "8", "6">>,
               pid |-> <<"7", "5", "2", "3">>]],
    [device |-> Dev_COM3, description |-> <<"Serial", "Port">>,
     hwid |-> [words |-> <<"ACPI">>, vid |-> <<>>, pid |-> <<>>]],
    [device |-> Dev_ttyS0, description |-> <<"n/a">>,
     hwid |-> [words |-> <<"n/a">>, vid |-> <<>>, pid |-> <<>>]] }

\* the lists comports() may return: no candidate twice
CandidateLists ==
  { l \in SeqsUpTo(Candidates, MaxPorts) :
      \A i, j \in 1..Len(l) : i # j => l[i] # l[j] }

\* Discovery on its own also meets a second candidate of each kind: a name
\* in upper case in the hardware id, a clone's bridge chip, a second COM
\* port, and a modem-style device path under /dev
Dev_ttyACM1 == <<"/dev/", "ttyACM", "1">>
Dev_ttyUSB1 == <<"/dev/", "ttyUSB", "1">>
Dev_COM7 == <<"COM", "7">>
Dev_cu_usbmodem == <<"/dev/", "cu", ".", "usbmodem", "1411">>

PortCatalog ==
  Candidates \cup
  { [device |-> Dev_ttyACM1, description |-> <<"ttyACM1">>,
     hwid |-> [words |-> <<"USB", "ARDUINO", "LLC">>, vid |-> <<>>, pid |-> <<>>]],
    [device |-> Dev_ttyUSB1, description |-> <<"USB", "Serial">>,
     hwid |-> [words |-> <<"USB">>, vid |-> <<"1", "A", "8", "6">>,
               pid |-> <<"5", "5", "D", "4">>]],
    [device |-> Dev_COM7, description |-> <<"Serial", "Port">>,
     hwid |-> [words |-> <<"ACPI">>, vid |-> <<>>, pid |-> <<>>]],
    [device |-> Dev_cu_usbmodem, description |-> <<"n/a">>,
     hwid |-> [words |-> <<"n/a">>, vid |-> <<>>, pid |-> <<>>]] }

CatalogLists ==
  { l \in SeqsUpTo(PortCatalog, MaxPorts) :
      \A i, j \in 1..Len(l) : i # j => l[i] # l[j] }

\* str.lower() on the words and hex digits that occur
lower(w) ==
  CASE w = "Arduino" -> "arduino" [] w = "ARDUINO" -> "arduino"
    [] w = "USB" -> "usb" [] w = "Uno" -> "uno" [] w = "Serial" -> "serial"
    [] w = "Port" -> "port" [] w = "ACPI" -> "acpi" [] w = "LLC" -> "llc"
    [] w = "A" -> "a" [] w = "B" -> "b" [] w = "C" -> "c"
    [] w = "D" -> "d" [] w = "E" -> "e" [] w = "F" -> "f"
    [] OTHER -> w

lowerAll(ws) == [i \in 1..Len(ws) |-> lower(ws[i])]

HexDigits ==
  {"0", "1", "2", "3", "4", "5", "6", "7", "8", "9",
   "a", "b", "c", "d", "e", "f"}

\* ARDUINO_VID_PID_PATTERNS, matched with re.IGNORECASE
ARDUINO_VID_PID_PATTERNS(hwid) ==
  LET vid == lowerAll(hwid.vid)
      pid == lowerAll(hwid.pid)
  IN  \/ /\ vid = <<"2", "3", "4", "1">>
         /\ Len(pid) >= 4 /\ pid[1] = "0" /\ pid[2] = "0"
         /\ pid[3] \in HexDigits /\ pid[4] \in HexDigits
      \/ vid = <<"1", "a", "8", "6">> /\ SubSeq(pid, 1, 4) = <<"7", "5", "2", "3">>
      \/ vid = <<"0", "4", "0", "3">> /\ SubSeq(pid, 1, 4) = <<"6", "0", "0", "1">>
      \/ vid = <<"0", "4", "0", "3">> /\ SubSeq(pid, 1, 4) = <<"6", "0", "1", "5">>
      \/ vid = <<"1", "a", "8", "6">> /\ SubSeq(pid, 1, 4) = <<"5", "5", "d", "4">>

IsDigits(tok) == tok \in {"0", "1", "3", "7", "1411"}

\* arduino_port_patterns, matched with re.match (anchored at the start)
arduino_port_patterns(device) ==
  \/ /\ Len(device) >= 4 /\ device[1] \in {"cu", "tty"} /\ device[2] = "."
     /\ device[3] \in {"usbmodem", "wchusbserial"} /\ IsDigits(device[4])
  \/ /\ Len(device) >= 3 /\ device[1] \in {"cu", "tty"} /\ device[2] = "."
     /\ device[3] = "SLAB_USBtoUART"
  \/ Len(device) >= 2 /\ device[1] = "COM" /\ IsDigits(device[2])

Tier1(port) ==
  \/ \E i \in 1..Len(port.description) : lower(port.description[i]) = "arduino"
  \/ \E i \in 1..Len(port.hwid.words) : lower(port.hwid.words[i]) = "arduino"
Tier2(port) == ARDUINO_VID_PID_PATTERNS(port.hwid)
Tier3(port) == arduino_port_patterns(port.device)

\* for each candidate, in list order, whether it matches the tier
Matches(ports, tier) ==
  [i \in 1..Len(ports) |->
     CASE tier = 1 -> Tier1(ports[i])
       [] tier = 2 -> Tier2(ports[i])
       [] tier = 3 -> Tier3(ports[i])]

AnyMatch(ports, tier) == \E i \in 1..Len(ports) : Matches(ports, tier)[i]

\* the first candidate that matches the tier (some candidate does)
First(ports, tier) ==
  ports[CHOOSE i \in 1..Len(ports) :
          Matches(ports, tier)[i] /\ \A j \in 1..(i - 1) : ~Matches(ports, tier)[j]]

find_port_ids_before_names(ports) ==
  IF ports = <<>> THEN None
  ELSE IF AnyMatch(ports, 2) THEN First(ports, 2).device
  ELSE IF AnyMatch(ports, 1) THEN First(ports, 1).device
  ELSE IF AnyMatch(ports, 3) THEN First(ports, 3).device
  ELSE IF Len(ports) = 1 THEN ports[1].device
  ELSE None

find_port_any_first(ports) ==
  IF ports = <<>> THEN None
  ELSE IF AnyMatch(ports, 1) THEN First(ports, 1).device
  ELSE IF AnyMatch(ports, 2) THEN First(ports, 2).device
  ELSE IF AnyMatch(ports, 3) THEN First(ports, 3).device
  ELSE ports[1].device

find_port_last_match(ports) ==
  LET Last(tier) ==
        ports[CHOOSE i \in 1..Len(ports) :
                /\ Matches(ports, tier)[i]
                /\ \A j \in (i + 1)..Len(ports) : ~Matches(ports, tier)[j]]
  IN  IF ports = <<>> THEN None
      ELSE IF AnyMatch(ports, 1) THEN Last(1).device
      ELSE IF AnyMatch(ports, 2) THEN Last(2).device
      ELSE IF AnyMatch(ports, 3) THEN Last(3).device
      ELSE IF Len(ports) = 1 THEN ports[1].device
      ELSE None

\* ArduinoSerial._find_arduino_port
_find_arduino_port(ports) ==
  IF ports = <<>> THEN None
  ELSE IF AnyMatch(ports, 1) THEN First(ports, 1).device
  ELSE IF AnyMatch(ports, 2) THEN First(ports, 2).device
  ELSE IF AnyMatch(ports, 3) THEN First(ports, 3).device
  ELSE IF Len(ports) = 1 THEN ports[1].device
  ELSE None

\* ------------------------------- test_arduino.py, find_arduino_port
\* The diagnostic tool has its own copy of the discovery: its own list of
\* vendor:product patterns, its own device-name patterns and its own four
\* strategies, each a loop over the ports in list order.
\* the module's ARDUINO_VID_PID_PATTERNS, searched with re.IGNORECASE
tool_vid_pid_patterns(hwid) ==
  \E pat \in { [vid |-> <<"2", "3", "4", "1">>, pid |-> <<"0", "0">>],
               [vid |-> <<"1", "a", "8", "6">>, pid |-> <<"7", "5", "2", "3">>],
               [vid |-> <<"0", "4", "0", "3">>, pid |-> <<"6", "0", "0", "1">>],
               [vid |-> <<"0", "4", "0", "3">>, pid |-> <<"6", "0", "1", "5">>],
               [vid |-> <<"1", "a", "8", "6">>, pid |-> <<"5", "5", "d", "4">>] } :
    /\ lowerAll(hwid.vid) = pat.vid
    /\ Len(hwid.pid) >= 4
    /\ SubSeq(lowerAll(hwid.pid), 1, Len(pat.pid)) = pat.pid
    /\ \A i \in 1..4 : lower(hwid.pid[i]) \in HexDigits

\* the tool's arduino_port_patterns, tried with re.match on port.device
tool_port_patterns(device) ==
  LET at(i) == IF i <= Len(device) THEN device[i] ELSE ""
  IN  \/ at(1) \in {"cu", "tty"} /\ at(2) = "." /\ at(3) = "usbmodem" /\ IsDigits(at(4))
      \/ at(1) \in {"cu", "tty"} /\ at(2) = "." /\ at(3) = "wchusbserial" /\ IsDigits(at(4))
      \/ at(1) \in {"cu", "tty"} /\ at(2) = "." /\ at(3) = "SLAB_USBtoUART"
      \/ at(1) = "COM" /\ IsDigits(at(2))

\* the test of one strategy of the tool on one port
tool_strategy(port, strategy) ==
  CASE strategy = 1 ->
         \/ "arduino" \in { lower(w) : w \in { port.description[i] :
                                               i \in 1..Len(port.description) } }
         \/ "arduino" \in { lower(w) : w \in { port.hwid.words[i] :
                                               i \in 1..Len(port.hwid.words) } }
    [] strategy = 2 -> tool_vid_pid_patterns(port.hwid)
    [] strategy = 3 -> tool_port_patterns(port.device)

\* `for port in ports: if <strategy>: return port.device`: the device of
\* the first port the strategy accepts, None when the loop ends
RECURSIVE tool_first(_, _)
tool_first(ports, strategy) ==
  IF ports = <<>> THEN None
  ELSE IF tool_strategy(Head(ports), strategy) THEN Head(ports).device
  ELSE tool_first(Tail(ports), strategy)

find_arduino_port_case_sensitive(ports) ==
  LET named(port) ==
        \/ \E i \in 1..Len(port.description) : port.description[i] = "arduino"
        \/ \E i \in 1..Len(port.hwid.words) : port.hwid.words[i] = "arduino"
      hits == { i \in 1..Len(ports) : named(ports[i]) }
  IN  IF ports = <<>> THEN None
      ELSE IF hits # {} THEN ports[CHOOSE i \in hits : \A j \in hits : i <= j].device
      ELSE IF tool_first(ports, 2) # None THEN tool_first(ports, 2)
      ELSE IF tool_first(ports, 3) # None THEN tool_first(ports, 3)
      ELSE IF Len(ports) = 1 THEN ports[1].device
      ELSE None

\* test_arduino.find_arduino_port
find_arduino_port(ports) ==
  IF ports = <<>> THEN None
  ELSE IF tool_first(ports, 1) # None THEN tool_first(ports, 1)
  ELSE IF tool_first(ports, 2) # None THEN tool_first(ports, 2)
  ELSE IF tool_first(ports, 3) # None THEN tool_first(ports, 3)
  ELSE IF Len(ports) = 1 THEN ports[1].device
  ELSE None

\* ------------------------------------------------------ the session object
\* A world is the ArduinoSerial object (self), the serial.Serial handles it
\* has created (numbered 1..opened; is_open holds the open ones), and the
\* outcome of the running call: its I/O events, its return value, and
\* whether it left by an exception it does not catch.
NoHandle == 0

\* ArduinoSerial.__init__
ArduinoSerial(port, require_arduino) ==
  [port |-> port, serial_conn |-> NoHandle, is_connected |-> FALSE,
   arduino_responding |-> FALSE, require_arduino |-> require_arduino]

Call(self, is_open, opened) ==
  [self |-> self, is_open |-> is_open, opened |-> opened,
   trace |-> <<>>, ret |-> FALSE, raised |-> FALSE]

Return(st, value) == [st EXCEPT !.ret = value, !.raised = FALSE]
Raise(st) == [st EXCEPT !.ret = FALSE, !.raised = TRUE]
Log(st, kind, data) == [st EXCEPT !.trace = Append(@, Ev(kind, data))]

\* the value of a deterministic step: the one element of the set
The(S) == CHOOSE x \in S : TRUE

\* the inner while loop of one ping attempt: the lines of this window are
\* read in order until one contains the ready token or the window elapses
RECURSIVE poll(_, _)
poll(tr, lines) ==
  IF lines = <<>> THEN [found |-> FALSE, trace |-> Append(tr, Ev("timeout", <<>>))]
  ELSE IF Contains(Head(lines), READY)
       THEN [found |-> TRUE, trace |-> Append(tr, Ev("readline", Head(lines)))]
       ELSE poll(Append(tr, Ev("readline", Head(lines))), Tail(lines))

ping_single_attempt(tr, dev, k) ==
  IF dev.errAt = k
  THEN [ret |-> FALSE, trace |-> Append(tr, Ev("verify_error", <<>>))]
  ELSE The({ [ret |-> p.found, trace |-> p.trace]
             : p \in {poll(Append(tr, Ev("write", PING)), dev.lines[k])} })

\* the for loop over the ping attempts, from attempt k on
RECURSIVE ping_attempts(_, _, _)
ping_attempts(tr, dev, k) ==
  IF k > PingAttempts THEN [ret |-> FALSE, trace |-> tr]
  ELSE IF dev.errAt = k
       THEN [ret |-> FALSE, trace |-> Append(tr, Ev("verify_error", <<>>))]
       ELSE The({ IF p.found THEN [ret |-> TRUE, trace |-> p.trace]
                  ELSE The({ ping_attempts(tr1, dev, k + 1) : tr1 \in {p.trace} })
                  : p \in {poll(Append(tr, Ev("write", PING)), dev.lines[k])} })

verify_any_line_responds(st, dev) ==
  IF st.self.serial_conn = NoHandle \/ st.self.serial_conn \notin st.is_open
  THEN [ret |-> FALSE, trace |-> st.trace]
  ELSE The({ [ret |-> Count(v.trace, "readline") > 0, trace |-> v.trace]
             : v \in {ping_attempts(
                        Append(st.trace, Ev("reset_input_buffer", <<>>)),
                        dev, 1)} })

\* ArduinoSerial._verify_arduino_connection
_verify_arduino_connection(st, dev) ==
  IF st.self.serial_conn = NoHandle \/ st.self.serial_conn \notin st.is_open
  THEN [ret |-> FALSE, trace |-> st.trace]
  ELSE ping_attempts(Append(st.trace, Ev("reset_input_buffer", <<>>)), dev, 1)

\* What the environment does during one connect():
\*   ports     the result of comports(), read only when self.port is None
\*   open_ok   FALSE: serial.Serial(...) raises serial.SerialException
\*   raise_at  where an exception that connect() does not catch arrives:
\*             "open" (ValueError from serial.Serial), "settle"
\*             (KeyboardInterrupt in time.sleep(2)) or "none"
\*   dev       the device's behaviour during verification
\* A scenario bounds the environment: the scans, the device behaviours, the
\* uncaught exceptions (faults) and the outcomes of the command I/O.
ConnectEnvs(self, scn) ==
  LET scans == IF self.port = None THEN scn.scans ELSE {<<>>}
  IN  [ports : scans, open_ok : {TRUE}, raise_at : {"none"},
       dev : scn.devices]
      \cup [ports : scans, open_ok : {FALSE}, raise_at : {"none"},
            dev : {Silent}]
      \cup [ports : scans, open_ok : {TRUE},
            raise_at : scn.faults \cap {"open", "settle"}, dev : {Silent}]

connect_leaks_handle(s4) ==
  IF ~s4.self.arduino_responding /\ s4.self.require_arduino
  THEN Return(s4, FALSE)
  ELSE Return([s4 EXCEPT !.self.is_connected = TRUE], TRUE)

connect_policy_ignores_required(s4) ==
  Return([s4 EXCEPT !.self.is_connected = TRUE], TRUE)

\* connect, after verification: a required device that does not respond
\* fails the connection and closes the handle
connect_policy(s4) ==
  IF ~s4.self.arduino_responding /\ s4.self.require_arduino
  THEN Return([Log(s4, "close", <<>>) EXCEPT
                 !.is_open = @ \ {s4.self.serial_conn}], FALSE)
  ELSE Return([s4 EXCEPT !.self.is_connected = TRUE], TRUE)

\* connect, the discovery step: `if self.port is None`
connect_discover(st, env) ==
  IF st.self.port = None
  THEN [Log(st, "discover", <<>>) EXCEPT
          !.self.port = _find_arduino_port(env.ports)]
  ELSE st

\* connect, after the settle delay: the verification and the policy
connect_verify(s3, env) ==
  The({ connect_policy([s3 EXCEPT !.trace = v.trace,
                                  !.self.arduino_responding = v.ret])
        : v \in {_verify_arduino_connection(s3, env.dev)} })

connect_open_no_settle(s1, env) ==
  IF s1.self.port = None THEN Return(s1, FALSE)
  ELSE IF env.raise_at = "open" THEN Raise(s1)
  ELSE IF ~env.open_ok THEN Return(Log(s1, "open_failed", <<>>), FALSE)
  ELSE
    The({ connect_verify(s2, env)
          : s2 \in {[Log(s1, "open", <<>>) EXCEPT
                       !.self.serial_conn = s1.opened + 1,
                       !.is_open = @ \cup {s1.opened + 1},
                       !.opened = s1.opened + 1]} })

\* connect, from serial.Serial(...) to the settle delay
connect_open(s1, env) ==
  IF s1.self.port = None THEN Return(s1, FALSE)
  ELSE IF env.raise_at = "open" THEN Raise(s1)
  ELSE IF ~env.open_ok THEN Return(Log(s1, "open_failed", <<>>), FALSE)
  ELSE
    The({ IF env.raise_at = "settle" THEN Raise(s2)
          ELSE connect_verify(Log(s2, "settle", <<>>), env)
          : s2 \in {[Log(s1, "open", <<>>) EXCEPT
                       !.self.serial_conn = s1.opened + 1,
                       !.is_open = @ \cup {s1.opened + 1},
                       !.opened = s1.opened + 1]} })

connect_always_opens(st0, env) ==
  The({ connect_open(s1, env) :
        s1 \in {connect_discover(Log(st0, "connect", <<>>), env)} })

\* ArduinoSerial.connect
connect(st0, env) ==
  IF st0.self.is_connected THEN Return(Log(st0, "connect", <<>>), TRUE)
  ELSE The({ connect_open(s1, env) :
             s1 \in {connect_discover(Log(st0, "connect", <<>>), env)} })

\* ArduinoSerial.disconnect
disconnect(st0) ==
  LET st == Log(st0, "disconnect", <<>>)
  IN
  IF st.self.serial_conn # NoHandle /\ st.self.is_connected
  THEN Return([Log(st, "close", <<>>) EXCEPT
                 !.is_open = @ \ {st.self.serial_conn},
                 !.self.is_connected = FALSE,
                 !.self.arduino_responding = FALSE], FALSE)
  ELSE Return(st, FALSE)

\* What the environment does during one send_command():
\*   conn   its behaviour during the lazy connect(), when there is one
\*   io     "ok"; "write_fails": write/flush raises serial.SerialException;
\*          "read_fails": the write succeeds and reading the reply raises
\*          it; "interrupt": KeyboardInterrupt in time.sleep(0.5)
NoConnect ==
  [ports |-> <<>>, open_ok |-> TRUE, raise_at |-> "none", dev |-> Silent]

\* A send that connects first meets any device of the scenario and then
\* I/O that works, or the silent or the ready device and then any outcome
\* of the command I/O.
SendEnvs(self, scn) ==
  IF self.is_connected THEN [conn : {NoConnect}, io : scn.io]
  ELSE [conn : ConnectEnvs(self, scn), io : scn.io \cap {"ok"}]
       \cup [conn : ConnectEnvs(self,
                      [scn EXCEPT !.devices =
                         @ \cap {Silent, OneWindow(1, <<READY>>)}]),
             io : scn.io]

\* send_label_command reaches the environment only through send_command
DispatchEnvs(self, label, scn) ==
  IF label \in {"Bom", "Ruim"} THEN SendEnvs(self, scn)
  ELSE {[conn |-> NoConnect, io |-> "ok"]}

\* the session on its own: every scan and device, calls that return
SessionScenario ==
  [scans |-> CandidateLists, devices |-> SessionDevices, faults |-> {},
   io |-> {"ok", "write_fails", "read_fails"}]

\* the perception loop with a free frame supply: also the exceptions the
\* session does not catch
LoopScenario ==
  [scans |-> { l \in CandidateLists : l = <<>> \/ (Len(l) = 1 /\ Tier1(l[1])) },
   devices |-> {Silent, OneWindow(1, <<READY>>)},
   faults |-> {"open", "settle", "interrupt"},
   io |-> {"ok", "write_fails", "interrupt"}]

\* the perception loop with the steady frame supply
SteadyScenario ==
  [scans |-> { l \in CandidateLists : l = <<>> \/ (Len(l) = 1 /\ Tier1(l[1])) },
   devices |-> {Silent, OneWindow(1, <<READY>>)},
   faults |-> {},
   io |-> {"ok", "write_fails"}]

send_failed_keeps_connected(st) == Return(st, FALSE)

send_failed_propagates(st) == Raise(st)

\* the except branch of send_command
send_failed(st) == Return([st EXCEPT !.self.is_connected = FALSE], FALSE)

\* send_command, once connected: the refusal, the write and the reply
send_write(s1, command, env) ==
  IF ~s1.self.arduino_responding /\ s1.self.require_arduino
  THEN Return(Log(s1, "refused", <<>>), FALSE)
  ELSE IF s1.self.serial_conn = NoHandle THEN Raise(s1)
  ELSE IF env.io = "write_fails" \/ s1.self.serial_conn \notin s1.is_open
       THEN send_failed(Log(s1, "write_failed", cmd_str(command)))
  ELSE IF ~s1.self.arduino_responding
       THEN Return(Log(Log(s1, "write", cmd_str(command)), "flush", <<>>), TRUE)
  ELSE IF env.io = "interrupt"
       THEN Raise(Log(Log(s1, "write", cmd_str(command)), "flush", <<>>))
  ELSE IF env.io = "read_fails"
       THEN send_failed(Log(Log(Log(s1, "write", cmd_str(command)),
                                "flush", <<>>), "read_failed", <<>>))
  ELSE Return(Log(Log(Log(s1, "write", cmd_str(command)),
                      "flush", <<>>), "reply", <<>>), TRUE)

send_command_unchecked(st0, command, env) ==
  The({ IF s1.raised THEN s1
        ELSE IF s1.self.serial_conn \notin s1.is_open \/ env.io = "write_fails"
             THEN send_failed(Log(s1, "write_failed", cmd_str(command)))
        ELSE Return(Log(Log(s1, "write", cmd_str(command)), "flush", <<>>), TRUE)
        : s1 \in {IF st0.self.is_connected THEN Log(st0, "send_command", <<>>)
                  ELSE connect(Log(st0, "send_command", <<>>), env.conn)} })

\* ArduinoSerial.send_command
send_command(st0, command, env) ==
  IF st0.self.is_connected
  THEN The({ send_write(st, command, env) :
             st \in {Log(st0, "send_command", <<>>)} })
  ELSE The({ IF s1.raised THEN s1
             ELSE IF ~s1.ret THEN Return(s1, FALSE)
             ELSE send_write(s1, command, env)
             : s1 \in {connect(Log(st0, "send_command", <<>>), env.conn)} })

\* the labels the classifier may return (labels.txt is not part of the
\* sources; AIModel.predict falls back to "Class <n>")
Labels == {"Bom", "Ruim", "Nada", "Good", "Bad", "Nothing", "Class 3", "bom"}

send_label_neutral_sends(st0, label, env) ==
  IF label \in {"Bom", "Nada", "Nothing"}
  THEN send_command(Log(st0, "send_label_command", <<>>), 1, env)
  ELSE IF label = "Ruim"
       THEN send_command(Log(st0, "send_label_command", <<>>), 0, env)
  ELSE Return(Log(st0, "send_label_command", <<>>), FALSE)

send_label_unknown_succeeds(st0, label, env) ==
  IF label = "Bom" THEN send_command(Log(st0, "send_label_command", <<>>), 1, env)
  ELSE IF label = "Ruim"
       THEN send_command(Log(st0, "send_label_command", <<>>), 0, env)
  ELSE Return(Log(st0, "send_label_command", <<>>), TRUE)

\* ArduinoSerial.send_label_command
send_label_command(st0, label, env) ==
  IF label = "Bom" THEN send_command(Log(st0, "send_label_command", <<>>), 1, env)
  ELSE IF label = "Ruim"
       THEN send_command(Log(st0, "send_label_command", <<>>), 0, env)
  ELSE IF label = "Nada" THEN Return(Log(st0, "send_label_command", <<>>), TRUE)
  ELSE Return(Log(st0, "send_label_command", <<>>), FALSE)

\* =================================================================== state
VARIABLES
  self,      \* the ArduinoSerial object's fields
  is_open,   \* the handles created by the session that are open
  opened,    \* how many handles the session has created
  call,      \* the last completed call: operation, arguments, events, result
  pre,       \* the object's fields when that call started
  prior,     \* TRUE when the call before `call` was a send whose write failed
  run,       \* run_with_model's arguments and collaborators
  pc,        \* where run_with_model is
  now,       \* the clock, time.time()
  loop,      \* run_with_model's locals
  cap,       \* the capture: "none", "open" or "released"
  obs,       \* what the run did: frames read, inference times, dispatches, exit
  disc,      \* one port discovery: the candidate list and the device returned
  mon,       \* the diagnostic tool's monitor mode: its two threads and handle
  app        \* main(): how the run was entered and what its connect() gave

session_vars == <<self, is_open, opened, call, pre, prior>>
loop_vars == <<run, pc, now, loop, cap, obs>>
tool_vars == <<disc, mon, app>>
vars ==
  <<self, is_open, opened, call, pre, prior, run, pc, now, loop, cap, obs,
    disc, mon, app>>

CallRecord(op, label, command, st) ==
  [op |-> op, label |-> label, command |-> command,
   trace |-> st.trace, ret |-> st.ret, raised |-> st.raised]

\* the call was a send whose write raised serial.SerialException
WriteFailed(c) == Count(c.trace, "write_failed") > 0

Finish(op, label, command, st) ==
  /\ st.opened <= MaxHandles
  /\ self' = st.self
  /\ is_open' = st.is_open
  /\ opened' = st.opened
  /\ call' = CallRecord(op, label, command, st)
  /\ pre' = self
  /\ prior' = WriteFailed(call)

\* (a call that would create more than MaxHandles handles is not taken)

ExplicitPorts == {None, Dev_ttyUSB0}

\* run_with_model's locals before the loop
Locals ==
  [last_prediction_time |-> 0, fps_start_time |-> 0, frame_count |-> 0,
   fps |-> [frames |-> 0, ticks |-> 1], current_prediction |-> "Waiting..."]

NoObs == [frames |-> 0, fired_at |-> <<>>, dispatches |-> 0, exit |-> ""]

\* no discovery has run; the monitor mode is not in use
NoDiscovery == [ports |-> <<>>, by |-> "", device |-> None]
NoMonitor ==
  [main |-> "off", reader |-> "off", stop |-> FALSE, open |-> FALSE,
   blocked |-> 0, waited |-> 0, writes |-> 0, late |-> FALSE, log |-> <<>>]

\* main() is not in use: the session or the camera is used directly
NoApp ==
  [entry |-> "", arduino |-> FALSE, connected |-> FALSE, responding |-> FALSE]

NoRun ==
  [has_model |-> FALSE, has_session |-> FALSE, display_fps |-> FALSE,
   headless |-> FALSE, prediction_interval |-> DefaultInterval,
   supply |-> "none"]

InitSession ==
  /\ \E port \in ExplicitPorts, require_arduino \in BOOLEAN :
       self = ArduinoSerial(port, require_arduino)
  /\ is_open = {}
  /\ opened = 0
  /\ call = [op |-> "__init__", label |-> "", command |-> 0,
             trace |-> <<>>, ret |-> FALSE, raised |-> FALSE]
  /\ pre = self
  /\ prior = FALSE

\* the session on its own: no perception loop runs
Init ==
  /\ InitSession
  /\ run = NoRun
  /\ pc = "off"
  /\ now = StartTime
  /\ loop = Locals
  /\ cap = "none"
  /\ obs = NoObs
  /\ disc = NoDiscovery
  /\ mon = NoMonitor
  /\ app = NoApp

Connect ==
  /\ pc = "off" /\ UNCHANGED <<loop_vars, tool_vars>>
  /\ \E env \in ConnectEnvs(self, SessionScenario) :
       \E st \in {connect(Call(self, is_open, opened), env)} :
         Finish("connect", "", 0, st)

Disconnect ==
  /\ pc = "off" /\ UNCHANGED <<loop_vars, tool_vars>>
  /\ \E st \in {disconnect(Call(self, is_open, opened))} :
       Finish("disconnect", "", 0, st)

Send ==
  /\ pc = "off" /\ UNCHANGED <<loop_vars, tool_vars>>
  /\ \E command \in {0, 1}, env \in SendEnvs(self, SessionScenario) :
       \E st \in {send_command(Call(self, is_open, opened), command, env)} :
         Finish("send_command", "", command, st)

Dispatch ==
  /\ pc = "off" /\ UNCHANGED <<loop_vars, tool_vars>>
  /\ \E label \in Labels : \E env \in DispatchEnvs(self, label, SessionScenario) :
       \E st \in {send_label_command(Call(self, is_open, opened), label, env)} :
         Finish("send_label_command", label, 0, st)

Next == Connect \/ Disconnect \/ Send \/ Dispatch

Spec == Init /\ [][Next]_vars

\* ------------------------------------------- Camera.run_with_model
\* The runs: the steady supply delivers RunFrames frames one tick apart and
\* inference and dispatch take no time; the free supply delivers frames
\* after any delay (at once, one tick, or a stall longer than the interval)
\* and may end at any time.
\* display_fps and headless as main passes them: the window with the FPS
\* overlay, or --headless --no-fps
Modes ==
  { [display_fps |-> TRUE, headless |-> FALSE],
    [display_fps |-> FALSE, headless |-> TRUE] }

Run(has_model, has_session, mode, prediction_interval, supply) ==
  [has_model |-> has_model, has_session |-> has_session,
   display_fps |-> mode.display_fps, headless |-> mode.headless,
   prediction_interval |-> prediction_interval, supply |-> supply]

Runs ==
  { Run(m, s, mode, DefaultInterval, "steady") :
      m \in BOOLEAN, s \in BOOLEAN, mode \in Modes }
  \cup
  { Run(m, s, mode, ShortInterval, "free") :
      m \in BOOLEAN, s \in BOOLEAN, mode \in Modes }

\* the labels of the model the loop runs with
LoopLabels == {"Bom", "Nada", "Good"}

Scenario == IF run.supply = "steady" THEN SteadyScenario ELSE LoopScenario

InitLoop ==
  /\ InitSession
  /\ run \in Runs
  /\ run.has_session \/ self = ArduinoSerial(None, TRUE)
  /\ pc = "idle"
  /\ now = StartTime
  /\ loop = Locals
  /\ cap = "none"
  /\ obs = NoObs
  /\ disc = NoDiscovery
  /\ mon = NoMonitor
  /\ app = NoApp

\* the run with the steady supply: 2.5 s of frames, five intervals of 0.5 s
RunFrames == 5 * DefaultInterval

Within(d) == now + d <= StartTime + MaxTime

\* how long read_frame() blocks
ReadDelays ==
  IF run.supply = "steady" THEN (IF obs.frames = 0 THEN {0} ELSE {1})
  ELSE { d \in {0, 1, run.prediction_interval + 1} : Within(d) }

\* how long predict() takes (the time send_label_command() takes passes
\* before the next frame is read: it is part of ReadDelays)
WorkDelays ==
  IF run.supply = "steady" THEN {0} ELSE { d \in {0, 1} : Within(d) }

\* the supply has another frame
MoreFrames ==
  IF run.supply = "steady" THEN obs.frames < RunFrames
  ELSE obs.frames < MaxFrames

\* the supply may end here
MayEnd == run.supply = "steady" => obs.frames = RunFrames

Leave(how) == obs' = [obs EXCEPT !.exit = how]

due_on_every_frame(t, last, interval) == TRUE

due_after_boundary(t, last, interval) == t - last > interval

\* `time.time() - last_prediction_time >= prediction_interval`
prediction_due(t, last, interval) == t - last >= interval

\* the FPS block of the loop body, at time t
fps_accounting(l, t) ==
  IF ~run.display_fps THEN l
  ELSE LET frame_count == l.frame_count + 1
       IN  IF t - l.fps_start_time >= FpsWindow
           THEN [l EXCEPT !.fps = [frames |-> frame_count,
                                   ticks |-> t - l.fps_start_time],
                          !.fps_start_time = t,
                          !.frame_count = 0]
           ELSE [l EXCEPT !.frame_count = frame_count]

\* entry: the model check and self.start()
RunStart ==
  /\ pc = "idle"
  /\ UNCHANGED <<tool_vars, session_vars, run, now, loop>>
  /\ IF ~run.has_model
     THEN pc' = "rejected" /\ cap' = cap /\ Leave("no_model")
     ELSE \E started \in BOOLEAN :
            IF started
            THEN /\ cap' = "open"
                 /\ pc' = IF run.has_session THEN "connect" ELSE "read"
                 /\ obs' = obs
            ELSE pc' = "rejected" /\ cap' = cap /\ Leave("no_camera")

\* `self.arduino_serial.connect()` before the try block
LoopConnect ==
  /\ pc = "connect"
  /\ UNCHANGED <<tool_vars, run, now, loop, cap>>
  /\ \E env \in ConnectEnvs(self, Scenario) :
       \E st \in {connect(Call(self, is_open, opened), env)} :
         /\ Finish("connect", "", 0, st)
         /\ IF st.raised
            THEN /\ pc' = "escaped"
                 /\ Leave(IF env.raise_at = "settle" THEN "interrupt"
                          ELSE "exception")
            ELSE pc' = "read" /\ obs' = obs

\* read_frame(), the FPS block and the interval gate
LoopRead ==
  /\ pc = "read"
  /\ UNCHANGED <<tool_vars, session_vars, run, cap>>
  /\ \/ /\ MayEnd
        /\ pc' = "finally" /\ Leave("end_of_stream")
        /\ UNCHANGED <<now, loop>>
     \/ /\ pc' = "finally" /\ Leave("interrupt")
        /\ UNCHANGED <<now, loop>>
     \/ /\ MoreFrames
        /\ \E d \in ReadDelays :
             LET t == now + d
                 fire == prediction_due(t, loop.last_prediction_time,
                                        run.prediction_interval)
             IN  /\ now' = t
                 /\ loop' = fps_accounting(loop, t)
                 /\ pc' = IF fire THEN "predict" ELSE "render"
                 /\ obs' = [obs EXCEPT
                              !.frames = @ + 1,
                              !.fired_at = IF fire THEN Append(@, t) ELSE @]

LoopPredictSkipsDispatch ==
  /\ pc = "predict"
  /\ UNCHANGED <<tool_vars, session_vars, run, cap>>
  /\ \E label \in LoopLabels, d \in WorkDelays :
       /\ now' = now + d
       /\ loop' = [loop EXCEPT !.current_prediction = label,
                               !.last_prediction_time = now + d]
       /\ pc' = "render"
       /\ obs' = obs

\* self.model.predict(frame); last_prediction_time = time.time()
LoopPredict ==
  /\ pc = "predict"
  /\ UNCHANGED <<tool_vars, session_vars, run, cap>>
  /\ \/ /\ pc' = "finally" /\ Leave("exception")
        /\ UNCHANGED <<now, loop>>
     \/ \E label \in LoopLabels, d \in WorkDelays :
          /\ now' = now + d
          /\ loop' = [loop EXCEPT !.current_prediction = label,
                                  !.last_prediction_time = now + d]
          /\ pc' = IF run.has_session THEN "dispatch" ELSE "render"
          /\ obs' = obs

\* self.arduino_serial.send_label_command(current_prediction)
LoopDispatch ==
  /\ pc = "dispatch"
  /\ UNCHANGED <<tool_vars, run, now, loop, cap>>
  /\ \E env \in DispatchEnvs(self, loop.current_prediction, Scenario) :
       \E st \in {send_label_command(Call(self, is_open, opened),
                                      loop.current_prediction, env)} :
         /\ Finish("send_label_command", loop.current_prediction, 0, st)
         /\ pc' = IF st.raised THEN "finally" ELSE "render"
         /\ obs' = [obs EXCEPT !.dispatches = @ + 1,
                               !.exit = IF st.raised THEN "exception" ELSE @]

\* display and waitKey, or the headless sleep
LoopRender ==
  /\ pc = "render"
  /\ UNCHANGED <<tool_vars, session_vars, run, now, loop, cap>>
  /\ \E stop \in BOOLEAN :
       IF stop
       THEN pc' = "finally" /\ Leave(IF run.headless THEN "interrupt" ELSE "quit")
       ELSE pc' = "read" /\ obs' = obs

\* the finally block: self.stop() and the session's disconnect()
LoopFinally ==
  /\ pc = "finally"
  /\ UNCHANGED <<tool_vars, run, now, loop, obs>>
  /\ cap' = "released"
  /\ pc' = "stopped"
  /\ IF run.has_session
     THEN \E st \in {disconnect(Call(self, is_open, opened))} :
            Finish("disconnect", "", 0, st)
     ELSE UNCHANGED session_vars

NextLoop ==
  \/ RunStart \/ LoopConnect \/ LoopRead \/ LoopPredict
  \/ LoopDispatch \/ LoopRender \/ LoopFinally

SpecLoop == InitLoop /\ [][NextLoop]_vars

\* run_with_model runs in one thread that is never starved: whenever the
\* run has a next step, a step is eventually taken
SpecLoopFair == SpecLoop /\ WF_vars(NextLoop)

\* ------------------------------------- ArduinoSerial._find_arduino_port
\* Discovery on its own: comports() returns a list of the catalog and
\* _find_arduino_port is applied to it.
InitDiscovery ==
  /\ self = ArduinoSerial(None, TRUE)
  /\ is_open = {}
  /\ opened = 0
  /\ call = [op |-> "__init__", label |-> "", command |-> 0,
             trace |-> <<>>, ret |-> FALSE, raised |-> FALSE]
  /\ pre = self
  /\ prior = FALSE
  /\ run = NoRun
  /\ pc = "discovery"
  /\ now = StartTime
  /\ loop = Locals
  /\ cap = "none"
  /\ obs = NoObs
  /\ disc \in [ports : CatalogLists, by : {""}, device : {None}]
  /\ mon = NoMonitor
  /\ app = NoApp

FindPort ==
  /\ pc = "discovery" /\ disc.by = ""
  /\ disc' = [disc EXCEPT !.by = "_find_arduino_port",
                          !.device = _find_arduino_port(disc.ports)]
  /\ UNCHANGED <<session_vars, loop_vars, mon, app>>

\* the diagnostic tool's discovery on the same list
FindPortTool ==
  /\ pc = "discovery" /\ disc.by = ""
  /\ disc' = [disc EXCEPT !.by = "find_arduino_port",
                          !.device = find_arduino_port(disc.ports)]
  /\ UNCHANGED <<session_vars, loop_vars, mon, app>>

NextDiscovery == FindPort \/ FindPortTool

SpecDiscovery == InitDiscovery /\ [][NextDiscovery]_vars

\* ------------------------- test_arduino.send_command, monitor mode
\* The diagnostic tool's monitor mode from reader_thread.start() on: the
\* main thread reads user input and writes commands, the reader thread
\* (serial_reader) polls the same handle.  The clock counts seconds.
\*   main     "input", "set_stop", "join", "close", "done"
\*   reader   "test" (the while condition), "in_waiting", "readline",
\*            "sleep", "exited"
\*   stop     stop_event
\*   open     ser.is_open
\*   blocked  how long the reader has been inside ser.readline()
\*   waited   how long the main thread has been inside join()
\*   late     the reader used the handle after ser.close()
\*   log      the steps of the finally block, in order
\* serial.Serial(port, baudrate, timeout=2): a read blocks up to 2 s
ReadTimeout == 2
\* reader_thread.join(timeout=1.0)
JoinTimeout == 1

InitMonitor ==
  /\ self = ArduinoSerial(None, TRUE)
  /\ is_open = {}
  /\ opened = 0
  /\ call = [op |-> "__init__", label |-> "", command |-> 0,
             trace |-> <<>>, ret |-> FALSE, raised |-> FALSE]
  /\ pre = self
  /\ prior = FALSE
  /\ run = NoRun
  /\ pc = "monitor"
  /\ now = StartTime
  /\ loop = Locals
  /\ cap = "none"
  /\ obs = NoObs
  /\ disc = NoDiscovery
  /\ app = NoApp
  /\ mon = [NoMonitor EXCEPT !.main = "input", !.reader = "test", !.open = TRUE]

MonFrame == UNCHANGED <<session_vars, loop_vars, disc, app>>

\* input() returned '0' or '1': ser.write, which may raise
MonCommand ==
  /\ mon.main = "input" /\ mon.writes < MaxCommands /\ MonFrame
  /\ \E ok \in BOOLEAN :
       mon' = IF ok THEN [mon EXCEPT !.writes = @ + 1]
              ELSE [mon EXCEPT !.main = "set_stop"]

\* 'exit' or 'quit', KeyboardInterrupt or another exception in input()
MonLeave ==
  /\ mon.main = "input" /\ MonFrame
  /\ mon' = [mon EXCEPT !.main = "set_stop"]

\* finally: stop_event.set()
MonSetStop ==
  /\ mon.main = "set_stop" /\ MonFrame
  /\ mon' = [mon EXCEPT !.stop = TRUE, !.main = "join",
                        !.log = Append(@, "set")]

\* reader_thread.join(timeout=1.0) returns: the reader has ended or the
\* timeout has passed
join_returns(m) == m.reader = "exited" \/ m.waited = JoinTimeout

MonJoin ==
  /\ mon.main = "join" /\ join_returns(mon) /\ MonFrame
  /\ mon' = [mon EXCEPT !.main = "close", !.log = Append(@, "join")]

\* ser.close()
MonClose ==
  /\ mon.main = "close" /\ MonFrame
  /\ mon' = [mon EXCEPT !.open = FALSE, !.main = "done",
                        !.log = Append(@, "close")]

\* `while not stop_event.is_set()`
ReaderTest ==
  /\ mon.reader = "test" /\ MonFrame
  /\ mon' = [mon EXCEPT !.reader = IF mon.stop THEN "exited" ELSE "in_waiting"]

\* `if ser.in_waiting`: raises on a closed handle (caught: the thread ends)
ReaderInWaiting ==
  /\ mon.reader = "in_waiting" /\ MonFrame
  /\ IF ~mon.open
     THEN mon' = [mon EXCEPT !.late = TRUE, !.reader = "exited"]
     ELSE \E data \in BOOLEAN :
            mon' = [mon EXCEPT !.reader = IF data THEN "readline" ELSE "sleep",
                              !.blocked = 0]

\* ser.readline() returns: a line, or what it has when its timeout passes;
\* on a handle closed meanwhile it returns or raises
ReaderReadline ==
  /\ mon.reader = "readline" /\ MonFrame
  /\ \E raises \in (IF mon.open THEN {FALSE} ELSE BOOLEAN) :
       mon' = [mon EXCEPT !.late = @ \/ ~mon.open,
                         !.reader = IF raises THEN "exited" ELSE "sleep"]

\* time.sleep(0.1)
ReaderSleep ==
  /\ mon.reader = "sleep" /\ MonFrame
  /\ mon' = [mon EXCEPT !.reader = "test"]

\* a second passes: only while the reader is blocked in readline(), whose
\* timeout has not passed, and the main thread is waiting (for input, or in
\* join() before its timeout) or done; every other step takes far less
MonTick ==
  /\ mon.reader = "readline" /\ mon.blocked < ReadTimeout
  /\ mon.main \in {"input", "join", "done"}
  /\ mon.main = "join" => mon.waited < JoinTimeout
  /\ MonFrame
  /\ mon' = [mon EXCEPT !.blocked = @ + 1,
                        !.waited = IF mon.main = "join" THEN @ + 1 ELSE @]

NextMonitor ==
  \/ MonCommand \/ MonLeave \/ MonSetStop \/ MonJoin \/ MonClose
  \/ ReaderTest \/ ReaderInWaiting \/ ReaderReadline \/ ReaderSleep
  \/ MonTick

SpecMonitor == InitMonitor /\ [][NextMonitor]_vars

\* ------------------------------------------------------------- main()
\* The application: main() checks the model files, creates the session and
\* connects it, and only then builds the Camera and calls run_with_model.
\* The run is entered through main(), or run_with_model is called on a
\* Camera built directly (app.entry = "camera").
\*   app.arduino      --no-arduino was not given
\*   app.connected    what main's connect() returned
\*   app.responding   arduino_responding after that connect()
main_gate_continues(st, allow_no_arduino) ==
  IF st.ret THEN "run" ELSE "run_without"

\* what main does with the result of connect(): go on with the session, go
\* on without it (arduino_serial = None), or return
main_gate(st, allow_no_arduino) ==
  IF st.ret
  THEN IF st.self.arduino_responding THEN "run"
       ELSE IF allow_no_arduino THEN "run" ELSE "return"
  ELSE IF ~allow_no_arduino THEN "return" ELSE "run_without"

InitMain ==
  /\ InitSession
  /\ run \in Runs
  /\ run.has_session \/ self = ArduinoSerial(None, TRUE)
  /\ pc \in {"main", "idle"}
  /\ now = StartTime
  /\ loop = Locals
  /\ cap = "none"
  /\ obs = NoObs
  /\ disc = NoDiscovery
  /\ mon = NoMonitor
  /\ app = IF pc = "main"
           THEN [NoApp EXCEPT !.entry = "main", !.arduino = run.has_session]
           ELSE [NoApp EXCEPT !.entry = "camera"]

\* the model and labels files are checked and the model is loaded
MainLoad ==
  /\ pc = "main"
  /\ UNCHANGED <<session_vars, disc, mon, app, run, now, loop, cap>>
  /\ IF run.has_model
     THEN pc' = "main_arduino" /\ obs' = obs
     ELSE pc' = "returned" /\ Leave("no_model")

\* the session is created and connected; main goes on to run_with_model
\* or returns
MainArduino ==
  /\ pc = "main_arduino"
  /\ UNCHANGED <<disc, mon, now, loop, cap>>
  /\ IF ~app.arduino
     THEN /\ pc' = "idle"
          /\ UNCHANGED <<session_vars, app, run, obs>>
     ELSE \E env \in ConnectEnvs(self, Scenario) :
            \E st \in {connect(Call(self, is_open, opened), env)} :
              /\ Finish("connect", "", 0, st)
              /\ app' = [app EXCEPT
                           !.connected = st.ret,
                           !.responding = st.self.arduino_responding]
              /\ IF st.raised
                 THEN pc' = "returned" /\ Leave("exception") /\ run' = run
                 ELSE \E gate \in {main_gate(st, ~self.require_arduino)} :
                        /\ pc' = IF gate = "return" THEN "returned" ELSE "idle"
                        /\ run' = IF gate = "run_without"
                                  THEN [run EXCEPT !.has_session = FALSE]
                                  ELSE run
                        /\ obs' = IF gate = "return"
                                  THEN [obs EXCEPT !.exit = "arduino_required"]
                                  ELSE obs

NextMain == MainLoad \/ MainArduino \/ NextLoop

SpecMain == InitMain /\ [][NextMain]_vars

\* ============================================================ properties
\* the call went through send_command
IsSend(c) ==
  \/ c.op = "send_command"
  \/ c.op = "send_label_command" /\ Count(c.trace, "send_command") = 1

\* positions of the command payload in a trace: written or refused by the OS
CommandWrites(tr) ==
  { i \in 1..Len(tr) : tr[i].kind \in {"write", "write_failed"} /\ tr[i].data # PING }

\* verification ran in the call
Verified(c) == Count(c.trace, "reset_input_buffer") > 0

\* C1: a send whose write fails returns false and leaves is_connected =
\* false; the send that follows it makes exactly one connect() call, and
\* whatever it writes as a command it writes after that connect() has
\* opened the port, waited the settle delay and run the verification.
C1_ReconnectOnceAfterWriteFailure ==
  /\ (IsSend(call) /\ WriteFailed(call)) =>
       ~call.ret /\ ~call.raised /\ ~self.is_connected
  /\ (prior /\ IsSend(call)) =>
       /\ Count(call.trace, "connect") = 1
       /\ Count(call.trace, "open") + Count(call.trace, "open_failed") <= 1
       /\ \A i \in CommandWrites(call.trace) :
            /\ 0 < FirstAt(call.trace, "connect")
            /\ FirstAt(call.trace, "connect") < FirstAt(call.trace, "open")
            /\ FirstAt(call.trace, "open") < FirstAt(call.trace, "settle")
            /\ FirstAt(call.trace, "settle") < FirstAt(call.trace, "reset_input_buffer")
            /\ FirstAt(call.trace, "reset_input_buffer") < i

\* a send that followed a failed write, reconnected and wrote its command
C1_Witness ==
  /\ prior /\ IsSend(call) /\ call.ret
  /\ ~pre.is_connected
  /\ Count(call.trace, "connect") = 1
  /\ CommandWrites(call.trace) # {}

\* C2: when a call's verification leaves responding = false on a session
\* with require_arduino = true, the call returns false, the session's handle
\* is closed and is_connected is false.
C2_RequiredSilentConnectFails ==
  (Verified(call) /\ self.require_arduino /\ ~self.arduino_responding) =>
    /\ ~call.ret /\ ~call.raised
    /\ self.serial_conn \notin is_open
    /\ ~self.is_connected

\* a connect() that opened the port, got no ready line and closed it again
C2_Witness ==
  /\ call.op = "connect" /\ Verified(call)
  /\ self.require_arduino /\ ~self.arduino_responding
  /\ Count(call.trace, "open") = 1 /\ Count(call.trace, "close") = 1
  /\ self.serial_conn # NoHandle

\* C3: after disconnect() the session's handle is closed, is_connected and
\* arduino_responding are false, and a second disconnect() changes nothing.
C3_DisconnectClosesHandle ==
  call.op = "disconnect" =>
    /\ self.serial_conn \notin is_open
    /\ ~self.is_connected
    /\ ~self.arduino_responding
    /\ LET again == disconnect(Call(self, is_open, opened))
       IN  again.self = self /\ again.is_open = is_open

\* C4: arduino_responding implies is_connected in every reachable state.
C4_RespondingImpliesConnected ==
  self.arduino_responding => self.is_connected

\* C5: after every call that returned, the session's handle is open exactly
\* when is_connected is true.
C5_HandleOpenIffConnected ==
  (call.op # "__init__" /\ ~call.raised) =>
    (self.serial_conn \in is_open <=> self.is_connected)

\* C9: on a connected, responding session whose write succeeds, dispatch of
\* "Good" or "Bom" writes exactly "1\n" and dispatch of "Bad" or "Ruim"
\* writes exactly "0\n".
C9_DispatchWritesCommandByte ==
  (/\ call.op = "send_label_command"
   /\ pre.is_connected /\ pre.arduino_responding
   /\ ~WriteFailed(call)) =>
    /\ call.label \in {"Good", "Bom"} => Written(call.trace) = << <<"1", "\n">> >>
    /\ call.label \in {"Bad", "Ruim"} => Written(call.trace) = << <<"0", "\n">> >>

\* C10: dispatch of "Nothing" or "Nada" returns true in every session state.
C10_NeutralLabelSucceeds ==
  (call.op = "send_label_command" /\ call.label \in {"Nothing", "Nada"}) =>
    call.ret

\* the labels the dispatcher's contract recognizes
Recognized == {"Good", "Bom", "Bad", "Ruim", "Nothing", "Nada"}

\* the call did no serial I/O and called neither send_command nor connect
NoSessionAccess(c) ==
  c.trace = <<Ev("send_label_command", <<>>)>>

\* C11: dispatch of "Nothing", "Nada" or a label outside the recognized set
\* calls neither send_command nor connect, does no serial I/O, and leaves
\* port, handle, is_connected and arduino_responding as they were, also on
\* a disconnected session.
C11_NeutralDispatchLeavesSession ==
  (/\ call.op = "send_label_command"
   /\ call.label \in {"Nothing", "Nada"} \cup (Labels \ Recognized)) =>
    /\ NoSessionAccess(call)
    /\ ~call.raised
    /\ self = pre

\* "Nothing" dispatched on a session that a failed write has disconnected
\* while its handle is open
C11_Witness ==
  /\ call.op = "send_label_command" /\ call.label = "Nothing"
  /\ ~pre.is_connected /\ pre.serial_conn \in is_open
  /\ self = pre

\* C12: dispatch of a label outside the recognized set returns false and
\* does no serial I/O, while dispatch of the neutral label the code knows
\* ("Nada") returns true.
C12_UnknownLabelReturnsFalse ==
  call.op = "send_label_command" =>
    /\ call.label \notin Recognized =>
         ~call.ret /\ ~call.raised /\ Written(call.trace) = <<>>
         /\ NoSessionAccess(call)
    /\ call.label = "Nada" => call.ret

\* a label that differs from a recognized one only in case, dispatched on
\* a connected and responding session
C12_Witness ==
  /\ call.op = "send_label_command" /\ call.label = "bom"
  /\ pre.is_connected /\ pre.arduino_responding
  /\ ~call.ret

\* the positions of the candidates that name an Arduino: "arduino" occurs,
\* in any case, in the descriptor or in the hardware id
NamesArduino(ports) ==
  { i \in 1..Len(ports) :
      \/ \E w \in 1..Len(ports[i].description) :
           lower(ports[i].description[w]) = "arduino"
      \/ \E w \in 1..Len(ports[i].hwid.words) :
           lower(ports[i].hwid.words[w]) = "arduino" }

\* the positions of the candidates that match the tier (1, 2 or 3)
TierMatches(ports, tier) == { i \in 1..Len(ports) : Matches(ports, tier)[i] }

Min(S) == CHOOSE i \in S : \A j \in S : i <= j

\* C13: when some candidate's descriptor or hardware id contains "arduino"
\* in any case, discovery returns the device of such a candidate, wherever
\* it stands in the list and whatever other matches stand before it.
C13_NameMatchWins ==
  (disc.by = "_find_arduino_port" /\ NamesArduino(disc.ports) # {}) =>
    \E i \in NamesArduino(disc.ports) : disc.device = disc.ports[i].device

\* a candidate known by its vendor:product id stands before the one that
\* names an Arduino, and the latter is returned
C13_Witness ==
  /\ disc.by = "_find_arduino_port" /\ Len(disc.ports) = 2
  /\ 1 \in TierMatches(disc.ports, 2) /\ NamesArduino(disc.ports) = {2}
  /\ disc.device = disc.ports[2].device

\* C14: when no candidate matches tier 1, 2 or 3, discovery returns the
\* candidate of a one-element list and None for the empty list and for a
\* list of two or more.
C14_SingletonFallback ==
  (/\ disc.by = "_find_arduino_port"
   /\ \A tier \in 1..3 : TierMatches(disc.ports, tier) = {}) =>
    IF Len(disc.ports) = 1 THEN disc.device = disc.ports[1].device
    ELSE disc.device = None

\* two candidates, neither matching a tier: discovery returned None
C14_Witness ==
  /\ disc.by = "_find_arduino_port" /\ Len(disc.ports) = 2
  /\ \A tier \in 1..3 : TierMatches(disc.ports, tier) = {}
  /\ disc.device = None

\* C15: the result is the first candidate, in list order, of the lowest
\* tier that has a match (1 name, 2 vendor:product id, 3 device name), the
\* only candidate when no tier has one, and None otherwise; so no match of
\* a tier is returned while a lower-numbered tier has a match.
C15_FirstOfLowestTier ==
  disc.by = "_find_arduino_port" =>
    /\ \A tier \in 1..3 :
         (/\ TierMatches(disc.ports, tier) # {}
          /\ \A lower_tier \in 1..(tier - 1) :
               TierMatches(disc.ports, lower_tier) = {}) =>
           disc.device = disc.ports[Min(TierMatches(disc.ports, tier))].device
    /\ (\A tier \in 1..3 : TierMatches(disc.ports, tier) = {}) =>
         disc.device = IF Len(disc.ports) = 1 THEN disc.ports[1].device ELSE None

\* two candidates match by device name only and the first one is returned
C15_Witness ==
  /\ disc.by = "_find_arduino_port"
  /\ TierMatches(disc.ports, 1) = {} /\ TierMatches(disc.ports, 2) = {}
  /\ TierMatches(disc.ports, 3) = {1, 2}
  /\ disc.device = disc.ports[1].device

\* the positions of the pings written in a trace
Pings(tr) == { i \in 1..Len(tr) : tr[i].kind = "write" /\ tr[i].data = PING }

\* the positions of the lines read in a trace that hold the ready token
ReadyLines(tr) ==
  { i \in 1..Len(tr) : tr[i].kind = "readline" /\ Contains(tr[i].data, READY) }

\* the positions at which a polling window elapsed
Timeouts(tr) == { i \in 1..Len(tr) : tr[i].kind = "timeout" }

C17_ReadyLineEndsVerification ==
  Verified(call) =>
    /\ self.arduino_responding <=> ReadyLines(call.trace) # {}
    /\ \A i \in ReadyLines(call.trace) :
         /\ ReadyLines(call.trace) = {i}
         /\ Cardinality(Pings(call.trace)) =
              Cardinality({ j \in Timeouts(call.trace) : j < i }) + 1
         /\ \A j \in (i + 1)..Len(call.trace) :
              /\ j \notin Pings(call.trace)
              /\ call.trace[j].kind \notin {"readline", "timeout"}

\* the ready line arrived in the second attempt, after another line in
\* the first
C17_Witness ==
  /\ call.op = "connect" /\ Verified(call) /\ self.arduino_responding
  /\ Cardinality(Pings(call.trace)) = 2
  /\ Count(call.trace, "readline") = 2
  /\ Cardinality(ReadyLines(call.trace)) = 1

\* C18: connect() on a connected session returns true and does nothing
\* else: no discovery, no open, no settle delay, no ping, and port, handle,
\* is_connected and arduino_responding stay as they were.
C18_ConnectWhenConnectedIsNoOp ==
  (call.op = "connect" /\ pre.is_connected) =>
    /\ call.ret /\ ~call.raised
    /\ call.trace = <<Ev("connect", <<>>)>>
    /\ self = pre

\* connect() called again on a session that is open but not responding
C18_Witness ==
  /\ call.op = "connect" /\ pre.is_connected /\ ~pre.arduino_responding
  /\ pre.serial_conn \in is_open
  /\ call.ret /\ self = pre

\* C19: a send on a session with require_arduino = true that is not
\* responding when the write is due (after the lazy connect, if any)
\* returns false and neither writes nor tries to write a command.
C19_NoWriteWhileRequiredAndSilent ==
  (IsSend(call) /\ self.require_arduino /\ ~self.arduino_responding) =>
    /\ CommandWrites(call.trace) = {}
    /\ ~call.ret /\ ~call.raised

\* a send that connected lazily to a required device that stayed silent
C19_Witness ==
  /\ call.op = "send_command" /\ Verified(call)
  /\ self.require_arduino /\ ~self.arduino_responding
  /\ ~call.ret /\ CommandWrites(call.trace) = {}
  /\ Cardinality(Pings(call.trace)) = PingAttempts

\* C20: every exit from the monitor loop sets the stop flag, then joins
\* the reader, then closes the handle, and the reader never uses the handle
\* (in_waiting, readline) after it has been closed.
C20_ReaderNeverUsesClosedHandle ==
  /\ mon.main = "done" => mon.log = <<"set", "join", "close">>
  /\ ~mon.open => mon.main = "done"
  /\ ~mon.late

\* the session has just failed a connect because the required device did
\* not reply: the handle that was opened has been closed again
Failed ==
  /\ Verified(call) /\ self.require_arduino /\ ~self.arduino_responding
  /\ ~call.ret /\ ~self.is_connected
  /\ Count(call.trace, "close") = 1

\* C21: once a connect has failed because the required device did not
\* reply, no later connect(), send or dispatch on the session opens a handle
\* or makes the session connected.
C21_FailedIsTerminal ==
  [][Failed => (opened' = opened /\ ~self'.is_connected)]_vars

\* the perception loop is in its Running state
Running == pc \in {"read", "predict", "dispatch", "render"}

\* the loop has done nothing: no frame read, no inference, no dispatch
NoLoopActivity ==
  ~Running /\ obs.frames = 0 /\ obs.fired_at = <<>> /\ obs.dispatches = 0

\* C22: when the device is required and main's connect() failed or left the
\* device not responding, main has returned and the loop has done nothing:
\* no frame read, no inference, no dispatch; and the loop does nothing
\* either while the model is absent or the capture has not been started.
C22_RequiredDeviceGatesTheLoop ==
  /\ (/\ app.entry = "main" /\ app.arduino /\ self.require_arduino
      /\ pc \notin {"main", "main_arduino"}
      /\ ~(app.connected /\ app.responding)) =>
       pc = "returned" /\ cap = "none" /\ NoLoopActivity
  /\ (~run.has_model \/ cap = "none") => NoLoopActivity

\* main returned because the required device was opened, pinged and silent
C22_Witness ==
  /\ app.entry = "main" /\ app.arduino /\ self.require_arduino
  /\ call.op = "connect" /\ Verified(call) /\ ~app.connected
  /\ pc = "returned" /\ obs.exit = "arduino_required"

\* the call attempted a connect() before anything it wrote as a command
ConnectsBeforeWriting(c) ==
  /\ Count(c.trace, "connect") = 1
  /\ \A i \in CommandWrites(c.trace) : FirstAt(c.trace, "connect") < i

\* C23: a dispatch of the Running loop whose write fails leaves the loop
\* running (the next step is the render and the frames go on); the next
\* dispatch of a TurnOn/TurnOff label, after the failure or whenever the
\* session is not connected, calls connect() before it writes.
C23_WriteFailureKeepsLoopRunning ==
  [][/\ (pc = "dispatch" /\ WriteFailed(call')) =>
          pc' = "render" /\ obs'.exit = "" /\ ~call'.raised
     /\ (/\ pc = "dispatch"
         /\ WriteFailed(call) \/ ~self.is_connected
         /\ loop.current_prediction \in {"Bom", "Ruim"}) =>
          ConnectsBeforeWriting(call')]_vars

\* after a dispatch whose write failed the loop read on, and the next
\* TurnOn dispatch reconnected and wrote its command
C23_Witness ==
  /\ Running /\ run.has_session
  /\ prior /\ call.op = "send_label_command" /\ call.label = "Bom"
  /\ ConnectsBeforeWriting(call) /\ CommandWrites(call.trace) # {} /\ call.ret
  /\ obs.dispatches >= 2 /\ obs.frames >= 2

\* the step recomputes the FPS value: the branch that closes a window
Recomputes == pc = "read" /\ loop'.fps_start_time # loop.fps_start_time

\* C24: every time the loop recomputes FPS, the window it closes has lasted
\* at least 1.0 s since the previous recomputation (since the loop started,
\* for the first one), the value reported is the frames counted in that
\* window divided by the time the window lasted, and the frame counter is
\* reset to 0.
C24_FpsIsFramesOverWindow ==
  [][Recomputes =>
       LET opened_at == IF loop.fps_start_time = Locals.fps_start_time
                        THEN StartTime ELSE loop.fps_start_time
           elapsed == now' - opened_at
       IN  /\ elapsed >= FpsWindow
           /\ loop'.fps.frames * elapsed = (loop.frame_count + 1) * loop'.fps.ticks
           /\ loop'.frame_count = 0]_vars

\* serial.Serial(...) raised serial.SerialException in the call
OpenFailed(c) == Count(c.trace, "open_failed") = 1

\* C25: a connect() whose open fails returns false and leaves the session
\* Disconnected (is_connected false, arduino_responding false, no handle
\* open), and a connect() after it attempts the open again.
C25_OpenFailureLeavesDisconnected ==
  [][/\ (call'.op = "connect" /\ OpenFailed(call')) =>
          /\ ~call'.ret /\ ~call'.raised
          /\ ~self'.is_connected /\ ~self'.arduino_responding
          /\ is_open' = {}
     /\ (call.op = "connect" /\ OpenFailed(call) /\ call'.op = "connect") =>
          Count(call'.trace, "open") + Count(call'.trace, "open_failed") = 1]_vars

\* positions of the verification traffic in a trace: the buffer reset, the
\* pings and the reads
VerificationTraffic(tr) ==
  { i \in 1..Len(tr) :
      \/ tr[i].kind \in {"reset_input_buffer", "readline"}
      \/ tr[i].kind \in {"write", "write_failed"} /\ tr[i].data = PING }

\* C26: in every call that opens a handle, the settle delay comes after the
\* open and before any verification traffic: no ping is written (and
\* nothing is read) on the new handle before the wait has completed.
C26_SettleBeforeVerification ==
  Count(call.trace, "open") > 0 =>
    /\ Count(call.trace, "open") = 1
    /\ \A i \in VerificationTraffic(call.trace) :
         /\ FirstAt(call.trace, "open") < FirstAt(call.trace, "settle")
         /\ FirstAt(call.trace, "settle") < i

\* a connect() that opened the port, waited and pinged three times
C26_Witness ==
  /\ call.op = "connect" /\ Count(call.trace, "open") = 1
  /\ Count(call.trace, "settle") = 1
  /\ Cardinality(Pings(call.trace)) = PingAttempts

\* C27: a device found by discovery is not kept beyond the connect() that
\* found it: when a call ran the discovery scan (the session has no explicit
\* port), the next call that runs connect() on the session while it is not
\* connected runs a fresh discovery scan.
C27_DiscoveryOnEveryConnect ==
  [][(/\ Count(call.trace, "discover") = 1
      /\ ~self.is_connected
      /\ Count(call'.trace, "connect") = 1) =>
       Count(call'.trace, "discover") = 1]_vars

\* C28: with a session present, an inference that completes is followed at
\* once by the dispatch of the label it returned: the dispatch is one call of
\* send_label_command with that label, it reads no frame, and when the next
\* frame is read every inference so far has had its dispatch. Dispatches
\* therefore happen one at a time, in the order of the inferences.
C28_OneDispatchPerInferenceInOrder ==
  [][run.has_session =>
       /\ (pc = "predict" /\ pc' # "finally") =>
            pc' = "dispatch" /\ obs'.dispatches = Len(obs.fired_at) - 1
       /\ pc = "dispatch" =>
            /\ call'.op = "send_label_command"
            /\ call'.label = loop.current_prediction
            /\ Count(call'.trace, "send_label_command") = 1
            /\ obs'.dispatches = obs.dispatches + 1
            /\ obs'.frames = obs.frames
            /\ pc' \in {"render", "finally"}
       /\ (pc = "read" /\ obs'.frames = obs.frames + 1) =>
            obs.dispatches = Len(obs.fired_at)]_vars

\* two inferences, each dispatched before the frame after it was read
C28_Witness ==
  /\ run.has_session /\ pc = "read"
  /\ Len(obs.fired_at) = 2 /\ obs.dispatches = 2 /\ obs.frames >= 3
  /\ call.op = "send_label_command" /\ call.label = loop.current_prediction

\* the capture signalled end-of-stream, or a quit signal arrived: the key
\* 'q', or the interrupt signal (KeyboardInterrupt)
EndObserved == obs.exit \in {"end_of_stream", "quit", "interrupt"}

\* C29: once the capture has signalled end-of-stream or a quit signal has
\* arrived, run_with_model eventually reaches Stopped (the capture released,
\* the session disconnected).
C29_LoopReachesStopped == EndObserved ~> (pc = "stopped")

\* C30: the session never has more than one handle open, and the open one
\* is the one it holds: whenever a call opens a new handle, every handle the
\* session opened earlier has already been closed.
C30_AtMostOneOpenHandle ==
  [][/\ opened' > opened => is_open = {}
     /\ Cardinality(is_open') <= 1
     /\ is_open' \subseteq {self'.serial_conn}]_vars

\* C31: in every state reached through the session's operations, a session
\* that is connected and requires the device has arduino_responding = true;
\* so the "not responding and required" refusal of send_command is never
\* taken, and no connect() gives the result for which main takes its branch
\* "connected but not responding, without --allow-no-arduino".
C31_ConnectedAndRequiredImpliesResponding ==
  /\ (self.is_connected /\ self.require_arduino) => self.arduino_responding
  /\ Count(call.trace, "refused") = 0
  /\ (call.op = "connect" /\ call.ret) =>
       main_gate([ret |-> call.ret, self |-> self], ~self.require_arduino) = "run"

\* a send on a connected session that requires the device: the refusal test
\* was passed and the command was written
C31_Witness ==
  /\ pre.is_connected /\ pre.require_arduino
  /\ self.is_connected /\ self.arduino_responding
  /\ IsSend(call) /\ call.ret /\ CommandWrites(call.trace) # {}

\* C32: for every candidate list the application's discovery
\* (ArduinoSerial._find_arduino_port) and the diagnostic tool's
\* (find_arduino_port) return the same device id, or both return None.
C32_DiscoveriesAgree ==
  /\ disc.by = "find_arduino_port" => disc.device = _find_arduino_port(disc.ports)
  /\ disc.by = "_find_arduino_port" => disc.device = find_arduino_port(disc.ports)

\* the tool returned the device named in upper case in its hardware id,
\* standing second behind a candidate known by its vendor:product id
C32_Witness ==
  /\ disc.by = "find_arduino_port" /\ Len(disc.ports) = 2
  /\ 1 \in TierMatches(disc.ports, 2) /\ NamesArduino(disc.ports) = {2}
  /\ disc.ports[2].device = Dev_ttyACM1
  /\ disc.device = Dev_ttyACM1

\* C6: in every run, two consecutive inferences are at least the configured
\* interval apart on the loop's clock, whatever the delays between frames,
\* and there is at most one dispatch for each inference.
C6_InferencesAtLeastIntervalApart ==
  /\ \A i \in 1..(Len(obs.fired_at) - 1) :
       obs.fired_at[i + 1] - obs.fired_at[i] >= run.prediction_interval
  /\ obs.dispatches <= Len(obs.fired_at)

\* a free supply that delivered more frames than there were inferences, with
\* two inferences and two dispatches
C6_Witness ==
  /\ run.supply = "free" /\ run.has_session
  /\ Len(obs.fired_at) = 2 /\ obs.dispatches = 2
  /\ obs.frames = MaxFrames

\* C7: with interval 0.5 s and frames every 1/30 s for 2.5 s, inference and
\* dispatch taking no time, the inference path fires exactly 5 times: on the
\* first frame and then on each frame that arrives exactly one interval
\* after the previous inference; with a session there are 5 dispatches.
C7_FiveInferencesInSteadyRun ==
  (/\ run.supply = "steady" /\ run.prediction_interval = DefaultInterval
   /\ obs.exit = "end_of_stream") =>
    /\ obs.frames = RunFrames
    /\ Len(obs.fired_at) = 5
    /\ \A i \in 1..5 : obs.fired_at[i] = StartTime + (i - 1) * DefaultInterval
    /\ run.has_session => obs.dispatches = 5

\* the steady run with a session, over
C7_Witness ==
  /\ run.supply = "steady" /\ run.has_session
  /\ pc = "stopped" /\ obs.exit = "end_of_stream"
  /\ obs.frames = RunFrames /\ obs.dispatches = 5

\* C8: once the capture has been started, run_with_model never exits without
\* releasing it and, when it has a session, calling disconnect() on it.
C8_ExitReleasesCaptureAndDisconnects ==
  (pc \in {"stopped", "escaped"} /\ cap # "none") =>
    /\ cap = "released"
    /\ run.has_session => call.op = "disconnect"

====
